---- MODULE Spec2Model ----
(***************************************************************************)
(* The PreferedNetworkRegistry contract (hardhat/contracts) and the client *)
(* factory preferredNetworkRegistry (client/src), as a state machine.      *)
(*                                                                         *)
(* The contract is a mapping with a setter, a getter and an event.  The    *)
(* client is a set of async functions; every `await` of a collaborator     *)
(* call (contract, wallet, public client, ENS) is one step of the function *)
(* that awaits it, so that calls of different operations interleave at the *)
(* await points exactly as promises do on the single JavaScript thread.    *)
(*                                                                         *)
(* PreferedNetworkRegistry.ts holds the factory twice (lines 19-201 and    *)
(* 243-454).  configuration.copy says which of the two built the client.   *)
(*                                                                         *)
(* A uint256 / bigint / JavaScript number n is the pair <<hi, lo>> standing *)
(* for hi * 2^53 + lo with 0 <= lo < 2^53, so that values on both sides of *)
(* the precision of Number() can be written within TLC's integers.         *)
(***************************************************************************)
EXTENDS Integers, Sequences, FiniteSets, TLC

\* Bounds of the model: the largest of the small network identifiers callers
\* pass, and the number of removeContractEventListeners calls.
MaxNetwork == 2
MaxRemoves == 2

Accounts == {"0xAAA", "0xBBB"}
Names == {"wevm.eth", "alice.eth"}
OpIds == {1, 2}
Null == "null"

Zero == <<0, 0>>
\* The network identifiers callers pass: 0 .. MaxNetwork and 2^53 + 1.
Uints == {<<0, n>> : n \in 0 .. MaxNetwork} \cup {<<1, 1>>}

\* chain: mainnet (chain id 1), the wallet client's chain at construction.
mainnet == <<0, 1>>

VARIABLES
  networkPreferences,  \* contract storage: mapping(address => uint)
  lastEvent,           \* the latest NetworkPreferenceSet event emitted
  lastWrite,           \* history: account -> argument of its latest
                       \* setPreferredNetwork that did not revert, <<>> if none
  ensRecords,          \* the ENS resolver: name -> account or Null
  addresses,           \* wallet.getAddresses()
  activeChain,         \* the chain the wallet is switched to
  lastSent,            \* the latest transaction the wallet has sent
  configuration,       \* the factory's argument
  constructed,         \* the factory has run
  watchers,            \* const watchers: the recorded unwatch handles
  subscriptions,       \* handles of the open watchContractEvent subscriptions
  unwatchCalls,        \* handle -> number of times it was invoked
  watchCalls,          \* number of watchContractEvent calls made
  removeCalls,         \* number of removeContractEventListeners calls returned
  ops                  \* the client's operations in flight

vars == <<networkPreferences, lastEvent, lastWrite, ensRecords, addresses,
          activeChain, lastSent, configuration, constructed, watchers, subscriptions, unwatchCalls,
          watchCalls, removeCalls, ops>>

contractVars == <<networkPreferences, lastEvent>>
walletVars == <<activeChain, lastSent>>
envVars == <<ensRecords, addresses, configuration>>
watchVars == <<watchers, subscriptions, unwatchCalls, watchCalls, removeCalls>>

-----------------------------------------------------------------------------
\* Number(bigint): the nearest IEEE-754 double, ties to even.  Below 2^53
\* (hi = 0) every integer is a double; in [2^k * 2^53, 2^(k+1) * 2^53) the
\* doubles are the multiples of ulp = 2^(k+1).
RECURSIVE Log2(_)
Log2(h) == IF h <= 1 THEN 0 ELSE 1 + Log2(h \div 2)

RECURSIVE Pow2(_)
Pow2(e) == IF e = 0 THEN 1 ELSE 2 * Pow2(e - 1)

Number(n) ==
  IF n[1] = 0 THEN n
  ELSE LET ulp == Pow2(Log2(n[1]) + 1)
           q == n[2] \div ulp
           r == n[2] % ulp
           up == \/ 2 * r > ulp
                 \/ 2 * r = ulp /\ q % 2 = 1
       IN <<n[1], ulp * (IF up THEN q + 1 ELSE q)>>

-----------------------------------------------------------------------------
\* Values an operation returns.
None == [tag |-> "none", n |-> Zero]
NullResult == [tag |-> "null", n |-> Zero]
BigInt(n) == [tag |-> "bigint", n |-> n]
\* The hash of the transaction that called setPreferredNetwork(n).
Hash(n) == [tag |-> "hash", n |-> n]
\* The receipt of the transfer to an account.
Receipt == [tag |-> "receipt", n |-> Zero]

NoEvent == [user |-> Null, network |-> Zero]
NoTx == [from |-> Null, to |-> Null]

\* An operation of the client: the function the caller invoked (entry) with
\* its arguments (name, address, network), the function now running (fn) and
\* the await it is at (pc), its locals (read, account), what it settled
\* with (result, error), and two history fields: the collaborator calls it has
\* made (calls), and whether the preference it read is still the stored one
\* and its switchChain still the wallet's latest (clean).
Idle == [entry |-> "idle", fn |-> "idle", pc |-> "idle", name |-> "",
         address |-> Null, network |-> Zero, read |-> Zero, account |-> Null,
         result |-> None, error |-> "", calls |-> <<>>, clean |-> FALSE]

\* The caller invokes `entry` with arguments from the model's sets; the
\* function runs to its first await, pc.  Slots are taken lowest first.
Invoke(o, entry, pc, name, address, network) ==
  /\ constructed
  /\ ops[o].entry = "idle"
  /\ \A p \in OpIds : p < o => ops[p].entry # "idle"
  /\ ops' = [ops EXCEPT ![o] = [Idle EXCEPT !.entry = entry, !.fn = entry,
                                            !.pc = pc, !.name = name,
                                            !.address = address,
                                            !.network = network]]

\* The first await of each function the client returns, and the sets its
\* arguments are drawn from.
FirstAwait(entry) ==
  IF entry \in {"getPreferredNetwork", "payOnPreferedNetwork"} THEN "read"
  ELSE IF entry \in {"getPreferedNetworkFromENS", "payENSAddress",
                     "payENSOnPreferedNetwork"} THEN "ens"
  ELSE "addresses"

NamesOf(entry) ==
  IF FirstAwait(entry) = "ens" THEN Names ELSE {""}

AddressesOf(entry) ==
  IF entry \in {"getPreferredNetwork", "payOnPreferedNetwork", "payAddress"}
  THEN Accounts ELSE {Null}

NetworksOf(entry) ==
  IF entry = "setPreferredNetwork" THEN Uints ELSE {Zero}

Awaits(o, fn, pc) == constructed /\ ops[o].fn = fn /\ ops[o].pc = pc

Called(op, call) == [op EXCEPT !.calls = Append(@, call)]
\* A settled promise holds its value or its error; the frame's locals are gone.
\* What was invoked and with which arguments stays on record, and for a
\* fulfilled promise the calls it made.
Settled(op, pc) ==
  [Idle EXCEPT !.entry = op.entry, !.name = op.name, !.address = op.address,
               !.network = op.network, !.pc = pc]
Return(op, result) ==
  [Settled(op, "done") EXCEPT !.result = result, !.calls = op.calls]
Fail(op, error) == [Settled(op, "failed") EXCEPT !.error = error]
\* return await f(...): the caller's frame ends in f's.
TailCall(op, fn, pc) == [op EXCEPT !.fn = fn, !.pc = pc]

-----------------------------------------------------------------------------
\* PreferedNetworkRegistry.sol

\* A contract without the require.
RevertsNever(_network) == FALSE

\* require(_network > 0, "Invalid network ID") fails
Reverts(_network) == _network = Zero

\* A contract that stores under an account other than msg.sender.
StoreForOther(sender, _network) ==
  /\ networkPreferences' =
       [networkPreferences EXCEPT ![CHOOSE a \in Accounts : a # sender] = _network]
  /\ lastEvent' = [user |-> sender, network |-> _network]

\* A contract that stores under every account.
StoreForAll(sender, _network) ==
  /\ networkPreferences' = [a \in Accounts |-> _network]
  /\ lastEvent' = [user |-> sender, network |-> _network]

\* networkPreferences[msg.sender] = _network;
\* emit NetworkPreferenceSet(msg.sender, _network);
Store(sender, _network) ==
  /\ networkPreferences' = [networkPreferences EXCEPT ![sender] = _network]
  /\ lastEvent' = [user |-> sender, network |-> _network]

\* function setPreferredNetwork(uint _network), msg.sender = sender.
\* A reverted call changes nothing.
ContractSetPreferredNetwork(sender, _network) ==
  IF Reverts(_network)
  THEN UNCHANGED contractVars
  ELSE Store(sender, _network)

\* function getPreferredNetwork(address _user)
ContractGetPreferredNetwork(_user) == networkPreferences[_user]

\* History: a call setPreferredNetwork(_network) by sender has returned.
Written(sender, _network, reverted) ==
  lastWrite' = IF reverted THEN lastWrite
               ELSE [lastWrite EXCEPT ![sender] = _network]

\* History: after a write by `user`, an operation that read user's preference
\* and has not yet sent its transfer no longer holds the stored one.
WrittenBy(os, user, reverted) ==
  [p \in OpIds |-> IF ~reverted /\ os[p].address = user
                   THEN [os[p] EXCEPT !.clean = FALSE] ELSE os[p]]

\* History: after a switchChain by operation o, the others' switch is no
\* longer the wallet's latest.
SwitchedBy(os, o) ==
  [p \in OpIds |-> IF p # o THEN [os[p] EXCEPT !.clean = FALSE] ELSE os[p]]

\* Any account calls the contract through some other client.
ExternalSetPreferredNetwork ==
  \E sender \in Accounts, _network \in Uints :
    /\ ContractSetPreferredNetwork(sender, _network)
    /\ Written(sender, _network, Reverts(_network))
    /\ ops' = WrittenBy(ops, sender, Reverts(_network))
    /\ UNCHANGED <<walletVars, envVars, constructed, watchVars>>

-----------------------------------------------------------------------------
\* Collaborators of the client.

\* normalize('wevm.eth'): the name is already in normal form.
WevmName == "wevm.eth"

\* The name getPreferedNetworkFromENS resolves: name: normalize('wevm.eth').
ResolvedName(ens) == WevmName

\* publicClient.getEnsAddress({ name })
getEnsAddress(name) == ensRecords[name]

\* getCurrentAddress: (await wallet.getAddresses())[0]
getCurrentAddress == addresses[1]

\* await contract.read.getPreferredNetwork([address]): the value read, held in
\* the frame; the ABI encoder throws on a value that is no address.
Read(op, address) ==
  LET c == Called(op, "contract.read.getPreferredNetwork")
  IN IF address = Null THEN Fail(c, "InvalidAddressError")
     ELSE [c EXCEPT !.read = ContractGetPreferredNetwork(address)]

\* return await contract.read.getPreferredNetwork([address])
ReturnBigInt(op) ==
  IF op.pc = "failed" THEN op ELSE Return(op, BigInt(op.read))

\* A wallet that accepts the switch and stays where it is.
switchChainIgnored(id) == id # Zero /\ activeChain' = activeChain

\* wallet.switchChain({ id }).  No chain has the identifier 0: the wallet
\* rejects it, which is Throw.
switchChain(id) == id # Zero /\ activeChain' = id

\* wallet.sendTransaction({ account, to, value }): the transaction goes out on
\* activeChain, the chain the wallet is switched to at this step.  The amount
\* is passed through as given and decides nothing.
sendTransaction(account, to) ==
  lastSent' = [from |-> account, to |-> to]

-----------------------------------------------------------------------------
\* The client's functions.  Call(o, entry) is the invocation; each function is
\* an action of operation o with one disjunct per await.

Call(o, entry) ==
  /\ \E name \in NamesOf(entry), address \in AddressesOf(entry),
        network \in NetworksOf(entry) :
       Invoke(o, entry, FirstAwait(entry), name, address, network)
  /\ UNCHANGED <<contractVars, lastWrite, walletVars, envVars, constructed, watchVars>>

getPreferredNetwork(o) ==
  /\ Awaits(o, "getPreferredNetwork", "read")
  /\ ops' = [ops EXCEPT ![o] = ReturnBigInt(Read(@, @.address))]
  /\ UNCHANGED <<contractVars, lastWrite, walletVars, envVars, constructed, watchVars>>

ThenReadAddress(op, ensAddress) ==
  TailCall([op EXCEPT !.address = ensAddress], "getPreferredNetwork", "read")

getPreferedNetworkFromENS(o) ==
  /\ Awaits(o, "getPreferedNetworkFromENS", "ens")
  /\ LET ensAddress == getEnsAddress(ResolvedName(ops[o].name))
         c == Called(ops[o], "publicClient.getEnsAddress")
     IN ops' = [ops EXCEPT ![o] =
                  IF configuration.copy = 2 /\ ensAddress = Null
                  THEN Return(c, NullResult)
                  ELSE ThenReadAddress(c, ensAddress)]
  /\ UNCHANGED <<contractVars, lastWrite, walletVars, envVars, constructed, watchVars>>

GotAddress(op, pc) ==
  [Called(op, "wallet.getAddresses") EXCEPT !.account = getCurrentAddress,
                                            !.pc = pc]

resolveCurrentPreferredNetwork(o) ==
  \/ /\ Awaits(o, "resolveCurrentPreferredNetwork", "addresses")
     /\ ops' = [ops EXCEPT ![o] = GotAddress(@, "read")]
     /\ UNCHANGED <<contractVars, lastWrite, walletVars, envVars, constructed, watchVars>>
  \/ /\ Awaits(o, "resolveCurrentPreferredNetwork", "read")
     /\ ops' = [ops EXCEPT ![o] = ReturnBigInt(Read(@, @.account))]
     /\ UNCHANGED <<contractVars, lastWrite, walletVars, envVars, constructed, watchVars>>

\* const network = await contract.read.getPreferredNetwork([account])
ThenSwitch(op) ==
  IF op.pc = "failed" THEN op ELSE [op EXCEPT !.pc = "switch"]

switchToPreferredNetwork(o) ==
  \/ /\ Awaits(o, "switchToPreferredNetwork", "addresses")
     /\ ops' = [ops EXCEPT ![o] = GotAddress(@, "read")]
     /\ UNCHANGED <<contractVars, lastWrite, walletVars, envVars, constructed, watchVars>>
  \/ /\ Awaits(o, "switchToPreferredNetwork", "read")
     /\ ops' = [ops EXCEPT ![o] = ThenSwitch(Read(@, @.account))]
     /\ UNCHANGED <<contractVars, lastWrite, walletVars, envVars, constructed, watchVars>>
  \/ /\ Awaits(o, "switchToPreferredNetwork", "switch")
     /\ switchChain(Number(ops[o].read))
     /\ ops' = [SwitchedBy(ops, o) EXCEPT ![o] =
                  Return(Called(@, "wallet.switchChain"), None)]
     /\ UNCHANGED <<contractVars, lastWrite, lastSent, envVars, constructed, watchVars>>

setPreferredNetwork(o) ==
  \/ /\ Awaits(o, "setPreferredNetwork", "addresses")
     /\ ops' = [ops EXCEPT ![o] = GotAddress(@, "write")]
     /\ UNCHANGED <<contractVars, lastWrite, walletVars, envVars, constructed, watchVars>>
  \/ /\ Awaits(o, "setPreferredNetwork", "write")
     /\ ContractSetPreferredNetwork(ops[o].account, ops[o].network)
     /\ LET reverted == Reverts(ops[o].network)
        IN /\ Written(ops[o].account, ops[o].network, reverted)
           /\ ops' = [WrittenBy(ops, ops[o].account, reverted) EXCEPT ![o] =
                        LET c == Called(@, "contract.write.setPreferredNetwork")
                        IN IF reverted THEN Fail(c, "Invalid network ID")
                           ELSE Return(c, Hash(@.network))]
     /\ UNCHANGED <<walletVars, envVars, constructed, watchVars>>

payAddress(o) ==
  \/ /\ Awaits(o, "payAddress", "addresses")
     /\ ops' = [ops EXCEPT ![o] = GotAddress(@, "send")]
     /\ UNCHANGED <<contractVars, lastWrite, walletVars, envVars, constructed, watchVars>>
  \/ /\ Awaits(o, "payAddress", "send")
     /\ sendTransaction(ops[o].account, ops[o].address)
     /\ ops' = [ops EXCEPT ![o] =
                  [Called(@, "wallet.sendTransaction") EXCEPT
                     !.account = Null, !.pc = "receipt"]]
     /\ UNCHANGED <<contractVars, lastWrite, activeChain, envVars, constructed, watchVars>>
  \/ /\ Awaits(o, "payAddress", "receipt")
     /\ ops' = [ops EXCEPT ![o] =
                  Return(Called(@, "publicClient.waitForTransactionReceipt"),
                         Receipt)]
     /\ UNCHANGED <<contractVars, lastWrite, walletVars, envVars, constructed, watchVars>>

\* What a "by name" function does with the resolved address: the second copy
\* throws on null, the first passes it on (address as `0x${string}`).
Resolved(op, address, fn, pc) ==
  LET c == Called(op, "publicClient.getEnsAddress")
  IN IF configuration.copy = 2 /\ address = Null
     THEN Fail(c, "Could not resolve address for ENS name")
     ELSE TailCall([c EXCEPT !.address = address], fn, pc)

payENSAddress(o) ==
  /\ Awaits(o, "payENSAddress", "ens")
  /\ ops' = [ops EXCEPT ![o] =
               Resolved(@, getEnsAddress(@.name), "payAddress", "addresses")]
  /\ UNCHANGED <<contractVars, lastWrite, walletVars, envVars, constructed, watchVars>>

\* A payOnPreferedNetwork that goes from the read straight to the payment.
ThenPay(op) ==
  IF op.pc = "failed" THEN op
  ELSE [op EXCEPT !.read = Zero, !.pc = "addresses", !.fn = "payAddress",
                  !.clean = TRUE]

\* const recipientPreferredNetwork = await getPreferredNetwork(address), then
\* the switch.
ThenSwitchTo(op) ==
  IF op.pc = "failed" THEN op
  ELSE [op EXCEPT !.pc = "switch", !.clean = TRUE]

payOnPreferedNetwork(o) ==
  \/ /\ Awaits(o, "payOnPreferedNetwork", "read")
     /\ ops' = [ops EXCEPT ![o] = ThenSwitchTo(Read(@, @.address))]
     /\ UNCHANGED <<contractVars, lastWrite, walletVars, envVars, constructed, watchVars>>
  \/ /\ Awaits(o, "payOnPreferedNetwork", "switch")
     /\ switchChain(Number(ops[o].read))
     /\ ops' = [SwitchedBy(ops, o) EXCEPT ![o] =
                  TailCall(Called([@ EXCEPT !.read = Zero], "wallet.switchChain"),
                           "payAddress", "addresses")]
     /\ UNCHANGED <<contractVars, lastWrite, lastSent, envVars, constructed, watchVars>>

payENSOnPreferedNetwork(o) ==
  /\ Awaits(o, "payENSOnPreferedNetwork", "ens")
  /\ ops' = [ops EXCEPT ![o] =
               Resolved(@, getEnsAddress(@.name), "payOnPreferedNetwork", "read")]
  /\ UNCHANGED <<contractVars, lastWrite, walletVars, envVars, constructed, watchVars>>

\* An awaited collaborator call rejects (transport, signing, chain rejection):
\* the error propagates to the caller unchanged.
Throw(o) ==
  /\ constructed
  /\ ops[o].pc \notin {"idle", "done", "failed"}
  /\ ops' = [ops EXCEPT ![o] = Fail(@, "transport")]
  /\ UNCHANGED <<contractVars, lastWrite, walletVars, envVars, constructed, watchVars>>

\* The caller takes the settled promise.
Settle(o) ==
  /\ ops[o].pc \in {"done", "failed"}
  /\ ops' = [ops EXCEPT ![o] = Idle]
  /\ UNCHANGED <<contractVars, lastWrite, walletVars, envVars, constructed, watchVars>>

-----------------------------------------------------------------------------
\* Event subscriptions.

\* The factory calls startContractEventListeners once, so at most one
\* subscription is ever opened; its unwatch handle is 1.
Handles == {1}

Range(s) == {s[i] : i \in DOMAIN s}

\* configuration?.callbacks?.onContractEvents
onContractEvents ==
  IF configuration.callbacks = "{onContractEvents}" THEN "function"
  ELSE "undefined"

\* The condition of startContractEventListeners: truthiness in the first
\* copy, `!== null` in the second.
Listens ==
  IF configuration.copy = 1
  THEN onContractEvents \notin {"undefined", Null}
  ELSE onContractEvents # Null

\* startContractEventListeners()
startContractEventListeners ==
  IF Listens
  THEN LET unwatch == watchCalls + 1
       IN /\ watchCalls' = watchCalls + 1
          /\ subscriptions' = subscriptions \cup {unwatch}
          /\ watchers' = Append(watchers, unwatch)
  ELSE UNCHANGED <<watchCalls, subscriptions, watchers>>

\* preferredNetworkRegistry(configuration)
preferredNetworkRegistry ==
  /\ ~constructed
  /\ constructed' = TRUE
  /\ startContractEventListeners
  /\ UNCHANGED <<contractVars, lastWrite, walletVars, envVars, unwatchCalls,
                 removeCalls, ops>>

\* A removeContractEventListeners that keeps the handles it has invoked.
KeepWatchers == watchers

\* watchers.length = 0
ClearWatchers == <<>>

Times(h) == Cardinality({i \in DOMAIN watchers : watchers[i] = h})

\* watchers.forEach(unwatch => { unwatch() }); watchers.length = 0
removeContractEventListeners ==
  /\ constructed
  /\ removeCalls < MaxRemoves
  /\ unwatchCalls' = [h \in Handles |-> unwatchCalls[h] + Times(h)]
  /\ subscriptions' = subscriptions \ Range(watchers)
  /\ watchers' = ClearWatchers
  /\ removeCalls' = removeCalls + 1
  /\ UNCHANGED <<contractVars, lastWrite, walletVars, envVars, constructed,
                 watchCalls, ops>>

-----------------------------------------------------------------------------
\* The first copy's type requires `callbacks`; the second's makes it optional.
Configurations ==
  {c \in [copy : {1, 2}, callbacks : {"undefined", "{}", "{onContractEvents}"}] :
     c.copy = 1 => c.callbacks # "undefined"}

EnsTables ==
  {f \in [Names -> Accounts \cup {Null}] :
     f["wevm.eth"] # "0xBBB" /\ f["alice.eth"] # "0xAAA"}

Wallets == {<<"0xAAA", "0xBBB">>, <<"0xBBB", "0xAAA">>}

Init ==
  /\ networkPreferences = [a \in Accounts |-> Zero]
  /\ lastEvent = NoEvent
  /\ lastWrite = [a \in Accounts |-> <<>>]
  /\ ensRecords \in EnsTables
  /\ addresses \in Wallets
  /\ activeChain = mainnet
  /\ lastSent = NoTx
  /\ configuration \in Configurations
  /\ constructed = FALSE
  /\ watchers = <<>>
  /\ subscriptions = {}
  /\ unwatchCalls = [h \in Handles |-> 0]
  /\ watchCalls = 0
  /\ removeCalls = 0
  /\ ops = [o \in OpIds |-> Idle]

\* The registry and the account-based reads and writes of the client.  The
\* functions taken here read neither the ENS nor the configuration.
InitRegistry ==
  /\ Init
  /\ ensRecords = [n \in Names |-> Null]
  /\ configuration = [copy |-> 2, callbacks |-> "{}"]

NextRegistry ==
  \/ preferredNetworkRegistry
  \/ ExternalSetPreferredNetwork
  \/ \E o \in OpIds :
       \/ Call(o, "getPreferredNetwork")
       \/ Call(o, "resolveCurrentPreferredNetwork")
       \/ Call(o, "switchToPreferredNetwork")
       \/ Call(o, "setPreferredNetwork")
       \/ getPreferredNetwork(o)
       \/ resolveCurrentPreferredNetwork(o)
       \/ switchToPreferredNetwork(o)
       \/ setPreferredNetwork(o)
       \/ Throw(o)
       \/ Settle(o)

SpecRegistry == InitRegistry /\ [][NextRegistry]_vars

\* The operations that take a name, one at a time, with the functions they
\* end in.
InitNames ==
  /\ Init
  /\ addresses = <<"0xAAA", "0xBBB">>
  /\ configuration.callbacks = "{}"

NextNames ==
  \/ preferredNetworkRegistry
  \/ ExternalSetPreferredNetwork
  \/ \E o \in {1} :
       \/ Call(o, "getPreferedNetworkFromENS")
       \/ Call(o, "payENSAddress")
       \/ Call(o, "payENSOnPreferedNetwork")
       \/ getPreferredNetwork(o)
       \/ getPreferedNetworkFromENS(o)
       \/ payAddress(o)
       \/ payENSAddress(o)
       \/ payOnPreferedNetwork(o)
       \/ payENSOnPreferedNetwork(o)
       \/ Throw(o)
       \/ Settle(o)

SpecNames == InitNames /\ [][NextNames]_vars

\* Payments on the preferred network, with what may interleave with them.
InitPay ==
  /\ Init
  /\ ensRecords = [n \in Names |-> Null]
  /\ addresses = <<"0xAAA", "0xBBB">>
  /\ configuration = [copy |-> 2, callbacks |-> "{}"]

NextPay ==
  \/ preferredNetworkRegistry
  \/ ExternalSetPreferredNetwork
  \/ \E o \in OpIds :
       \/ Call(o, "payOnPreferedNetwork")
       \/ Call(o, "switchToPreferredNetwork")
       \/ switchToPreferredNetwork(o)
       \/ payAddress(o)
       \/ payOnPreferedNetwork(o)
       \/ Throw(o)
       \/ Settle(o)

SpecPay == InitPay /\ [][NextPay]_vars

\* The subscription's life, beside reads and writes of the registry.
InitWatch ==
  /\ Init
  /\ ensRecords = [n \in Names |-> Null]
  /\ addresses = <<"0xAAA", "0xBBB">>

NextWatch ==
  \/ preferredNetworkRegistry
  \/ removeContractEventListeners
  \/ ExternalSetPreferredNetwork
  \/ \E o \in {1} :
       \/ Call(o, "getPreferredNetwork")
       \/ getPreferredNetwork(o)
       \/ Throw(o)
       \/ Settle(o)

SpecWatch == InitWatch /\ [][NextWatch]_vars

-----------------------------------------------------------------------------
\* Properties.

Signer == getCurrentAddress

ReadCall == "contract.read.getPreferredNetwork"
SwitchCall == "wallet.switchChain"
PayCalls == <<"wallet.getAddresses", "wallet.sendTransaction",
              "publicClient.waitForTransactionReceipt">>

IsPrefix(s, t) == Len(s) <= Len(t) /\ \A i \in 1 .. Len(s) : s[i] = t[i]

\* Operation o leaves the await pc of function fn with its call completed.
Completes(o, fn, pc) ==
  /\ ops[o].fn = fn
  /\ ops[o].pc = pc
  /\ ops'[o].pc \notin {pc, "failed"}

\* C1: write-then-read consistency.  An account whose latest successful
\* setPreferredNetwork had argument n has n stored, whatever the other accounts
\* wrote since; a getPreferredNetwork(A) of the client returns that n; and a
\* setPreferredNetwork of the client that succeeds is a write by the signer.
WriteThenRead ==
  /\ [](\A a \in Accounts :
          lastWrite[a] # <<>> => ContractGetPreferredNetwork(a) = lastWrite[a])
  /\ [][\A o \in OpIds :
          /\ Completes(o, "getPreferredNetwork", "read")
               /\ lastWrite[ops[o].address] # <<>>
             => ops'[o].result = BigInt(lastWrite[ops[o].address])
          /\ Completes(o, "setPreferredNetwork", "write")
             => lastWrite'[Signer] = ops[o].network]_vars

\* Both accounts have written, differently, and a read has returned a
\* preference.
WriteThenReadWitness ==
  /\ \A a \in Accounts : lastWrite[a] # <<>>
  /\ lastWrite["0xAAA"] # lastWrite["0xBBB"]
  /\ \E o \in OpIds :
       /\ ops[o].entry = "getPreferredNetwork"
       /\ ops[o].pc = "done"
       /\ ops[o].result.n # Zero
  /\ \E o \in OpIds :
       ops[o].entry = "setPreferredNetwork" /\ ops[o].pc = "done"

\* C2: setPreferredNetwork(0) always fails.  No account's call with 0 ever
\* succeeds and no event carries 0; the client's call with 0 reaches the
\* contract (it is not validated before) and is rejected there, leaving the
\* stored preferences and the events as they were.
ZeroAlwaysFails ==
  /\ [](\A a \in Accounts : lastWrite[a] # Zero)
  /\ [](lastEvent.network = Zero => lastEvent = NoEvent)
  /\ [](\A o \in OpIds :
          ops[o].entry = "setPreferredNetwork" /\ ops[o].network = Zero
          => ops[o].pc # "done")
  /\ [][\A o \in OpIds :
          /\ ops[o].fn = "setPreferredNetwork"
          /\ ops[o].network = Zero
          /\ ops[o].pc = "write"
          /\ ops'[o].pc # "write"
          => /\ UNCHANGED <<networkPreferences, lastEvent, lastWrite>>
             /\ ops'[o].pc = "failed"
             /\ ops'[o].error \in {"Invalid network ID", "transport"}]_vars

\* The signer has a preference, and its setPreferredNetwork(0) was rejected by
\* the contract.
ZeroAlwaysFailsWitness ==
  /\ networkPreferences[Signer] # Zero
  /\ \E o \in OpIds :
       /\ ops[o].entry = "setPreferredNetwork"
       /\ ops[o].network = Zero
       /\ ops[o].pc = "failed"
       /\ ops[o].error = "Invalid network ID"

\* C3: an account that never had a successful setPreferredNetwork reads as 0,
\* whatever the other accounts have written.
NeverSetReadsZero ==
  \A a \in Accounts :
    lastWrite[a] = <<>> => ContractGetPreferredNetwork(a) = Zero

\* One account has written, the other has not, and a read of the other has
\* returned.
NeverSetReadsZeroWitness ==
  \E a \in Accounts, b \in Accounts :
    /\ lastWrite[a] = <<>>
    /\ lastWrite[b] # <<>>
    /\ \E o \in OpIds :
         /\ ops[o].entry = "getPreferredNetwork"
         /\ ops[o].address = a
         /\ ops[o].pc = "done"
         /\ ops[o].result = BigInt(Zero)

\* C4: payENSAddress with a name that does not resolve sends no transaction
\* and does not fulfil.
PayByNameAbsentThrows ==
  \A o \in OpIds :
    ops[o].entry = "payENSAddress" /\ getEnsAddress(ops[o].name) = Null
    => /\ "wallet.sendTransaction" \notin Range(ops[o].calls)
       /\ ops[o].pc # "done"

\* C5: removeContractEventListeners is idempotent.  No handle is ever invoked
\* twice; once it has been called, however often, every handle recorded has
\* been invoked once, no subscription is open and watchers is empty.
RemoveIdempotent ==
  /\ \A h \in Handles : unwatchCalls[h] <= 1
  /\ removeCalls >= 1
     => /\ watchers = <<>>
        /\ subscriptions = {}
        /\ \A h \in Handles :
             unwatchCalls[h] = IF h <= watchCalls THEN 1 ELSE 0

\* A subscription was opened and removeContractEventListeners has been called
\* twice.
RemoveIdempotentWitness ==
  /\ removeCalls >= 2
  /\ watchCalls = 1
  /\ unwatchCalls[1] = 1

\* C6: after construction the client has opened one subscription and recorded
\* its handle if onContractEvents was supplied, and none otherwise.
SubscribesIffCallback ==
  constructed /\ removeCalls = 0
  => IF configuration.callbacks = "{onContractEvents}"
     THEN watchCalls = 1 /\ watchers = <<1>> /\ subscriptions = {1}
     ELSE watchCalls = 0 /\ watchers = <<>> /\ subscriptions = {}

\* C7: getPreferedNetworkFromENS(name) that fulfils has read the registry for
\* the account `name` resolves to, or returned null without reading it when
\* `name` does not resolve.
FromNameResolvesGivenName ==
  \A o \in OpIds :
    ops[o].entry = "getPreferedNetworkFromENS" /\ ops[o].pc = "done"
    => IF getEnsAddress(ops[o].name) = Null
       THEN ops[o].result = NullResult /\ ReadCall \notin Range(ops[o].calls)
       ELSE ops[o].result.tag = "bigint"
            /\ ops[o].address = getEnsAddress(ops[o].name)

\* C8, as claimed: payOnPreferedNetwork calls its collaborators for the read
\* of the preference and then for the payment, and for nothing else.
PayOnIssuesReadThenPay ==
  \A o \in OpIds :
    ops[o].entry = "payOnPreferedNetwork"
    => IsPrefix(ops[o].calls, <<ReadCall>> \o PayCalls)

\* C8, amended: payOnPreferedNetwork calls its collaborators in this order and
\* for nothing else: the read of the preference, wallet.switchChain, then the
\* payment's getAddresses, sendTransaction and waitForTransactionReceipt, each
\* after the one before has completed; one that fulfils has made them all.
PayOnIssuesReadSwitchPay ==
  \A o \in OpIds :
    ops[o].entry = "payOnPreferedNetwork"
    => /\ IsPrefix(ops[o].calls, <<ReadCall, SwitchCall>> \o PayCalls)
       /\ ops[o].pc = "done"
          => ops[o].calls = <<ReadCall, SwitchCall>> \o PayCalls

\* A payOnPreferedNetwork has fulfilled.
PayOnIssuesReadSwitchPayWitness ==
  \E o \in OpIds :
    /\ ops[o].entry = "payOnPreferedNetwork"
    /\ ops[o].pc = "done"
    /\ ops[o].result = Receipt

\* C9: with the signer's latest successful write n still the value read,
\* resolveCurrentPreferredNetwork returns n and a switchToPreferredNetwork
\* that completes leaves the wallet on chain n.
SwitchLeavesPreferred ==
  [][\A o \in OpIds :
       /\ Completes(o, "resolveCurrentPreferredNetwork", "read")
            /\ lastWrite[Signer] # <<>>
          => ops'[o].result = BigInt(lastWrite[Signer])
       /\ Completes(o, "switchToPreferredNetwork", "switch")
            /\ lastWrite[Signer] = ops[o].read
          => activeChain' = lastWrite[Signer]]_vars

\* C10, as claimed: whatever interleaves, the transfer of a
\* payOnPreferedNetwork is sent while the wallet's chain is the recipient's
\* stored preference.  The wallet's chain is a JavaScript number and the
\* preference a bigint: they are compared as the client converts, by Number.
PaySentOnStoredPreference ==
  [][\A o \in OpIds :
       /\ ops[o].entry = "payOnPreferedNetwork"
       /\ Completes(o, "payAddress", "send")
       => activeChain = Number(ContractGetPreferredNetwork(ops[o].address))]_vars

\* C10, amended: when, between the operation's read of the preference and its
\* sendTransaction, the recipient's preference is not written and no other
\* operation completes a switchChain, the transfer is sent while the wallet's
\* chain is Number(the recipient's stored preference).
PaySentOnPreferenceIfUndisturbed ==
  [][\A o \in OpIds :
       /\ ops[o].entry = "payOnPreferedNetwork"
       /\ Completes(o, "payAddress", "send")
       /\ ops[o].clean
       => activeChain = Number(ContractGetPreferredNetwork(ops[o].address))]_vars

\* An undisturbed payOnPreferedNetwork has sent its transfer on a chain other
\* than the one the wallet started on.
PaySentOnPreferenceIfUndisturbedWitness ==
  \E o \in OpIds :
    /\ ops[o].entry = "payOnPreferedNetwork"
    /\ ops[o].pc = "receipt"
    /\ ops[o].clean
    /\ lastSent.to = ops[o].address
    /\ activeChain # mainnet
    /\ activeChain = Number(ContractGetPreferredNetwork(ops[o].address))

====
